---- MODULE Spec2Model ----
(***************************************************************************)
(* A model of pycalendar.py: generate_pdf -> add_calendar_page -> (per     *)
(* cell) save_state / draw_cell, drawing on a reportlab Canvas.            *)
(*                                                                         *)
(* Numbers that are floats in the program are exact rationals <<n, d>>     *)
(* (d > 0, lowest terms) here, so the geometry is checked in exact         *)
(* arithmetic; rounding of IEEE doubles is not modelled.                   *)
(***************************************************************************)
EXTENDS Integers, Sequences, FiniteSets, TLC

VARIABLES
    pc,              \* position of control in generate_pdf / add_calendar_page
    firstweekday,    \* the calendar module's process-wide first weekday
    datetime_obj,    \* [year, month] the page is rendered for
    first_weekday,   \* the first_weekday argument of the call
    page_rect,       \* the rect argument given to add_calendar_page
    cal,             \* calendar.monthcalendar(...): the MonthGrid
    rect,            \* the inset rect (line 89)
    scale_factor, line_width, font, rows, cellsize,
    row, col,        \* loop position (lines 96-97)
    canvas_font,     \* Canvas: active font
    canvas_lineWidth,\* Canvas: active line width
    state_stack,     \* Canvas: saveState/restoreState stack
    ops,             \* Canvas: the stream of drawing and query calls issued
    pages,           \* Canvas: number of showPage calls
    saved,           \* Canvas: save() was called
    error,           \* the exception raised so far, "none" if none
    calls            \* history of cell_cb invocations, in order

vars == <<pc, firstweekday, datetime_obj, first_weekday, page_rect, cal, rect,
          scale_factor, line_width, font, rows, cellsize, row, col,
          canvas_font, canvas_lineWidth, state_stack, ops, pages, saved, error,
          calls>>

-----------------------------------------------------------------------------
(* Bounds of the model *)

\* pages are rendered for the years 2023 .. 2023 + MaxYearOffset (2024 is a
\* leap year) and the months 1 .. MaxMonth: January 2023 takes 6 rows under
\* a Monday start, February 2023 takes 4 rows under a Wednesday start
MaxYearOffset == 1
MaxMonth == 2

Years == 2023 .. (2023 + MaxYearOffset)
RenderMonths == 1 .. MaxMonth

\* the month grid alone is built for every month of the years
\* 2020 .. 2020 + MaxGridYearOffset and of three century years
MaxGridYearOffset == 7

GridYears == {1900, 2000, 2100} \cup (2020 .. (2020 + MaxGridYearOffset))
Months == 1 .. 12

\* calendar.MONDAY .. calendar.SUNDAY
Weekdays == 0 .. 6

\* page sizes (width, height) in points handed to generate_pdf: a landscape
\* page, a portrait page, a page of zero width and a page of negative
\* height; small, so that every product of the exact arithmetic stays
\* within TLC's 32-bit integers
PageSizes == { <<200, 100>>, <<100, 200>>, <<0, 100>>, <<200, -100>> }

-----------------------------------------------------------------------------
(* Exact rational arithmetic standing for the program's floats *)

Abs(n) == IF n < 0 THEN -n ELSE n

RECURSIVE GCD(_, _)
GCD(a, b) == IF b = 0 THEN a ELSE GCD(b, a % b)

\* the rational n/d (d # 0) in lowest terms with a positive denominator
Rat(n, d) ==
    LET s == IF d < 0 THEN -1 ELSE 1
        g == GCD(Abs(n), Abs(d))
    IN  <<(s * n) \div g, (s * d) \div g>>

RInt(n) == <<n, 1>>

RAdd(a, b) ==
    LET l == (a[2] \div GCD(a[2], b[2])) * b[2]
    IN  Rat(a[1] * (l \div a[2]) + b[1] * (l \div b[2]), l)

RNeg(a) == <<-a[1], a[2]>>

RSub(a, b) == RAdd(a, RNeg(b))

RMul(a, b) ==
    LET g1 == GCD(Abs(a[1]), b[2])
        g2 == GCD(Abs(b[1]), a[2])
    IN  Rat((a[1] \div g1) * (b[1] \div g2), (a[2] \div g2) * (b[2] \div g1))

\* a / k for an integer k # 0
RDivInt(a, k) == RMul(a, Rat(1, k))

RLt(a, b) ==
    LET l == (a[2] \div GCD(a[2], b[2])) * b[2]
    IN  a[1] * (l \div a[2]) < b[1] * (l \div b[2])

RLe(a, b) == a = b \/ RLt(a, b)

RMin(a, b) == IF RLt(b, a) THEN b ELSE a

-----------------------------------------------------------------------------
(* Value types (lines 49-51) *)

Font(name, size) == [name |-> name, size |-> size]
Geom(x, y, width, height) == [x |-> x, y |-> y, width |-> width, height |-> height]
Size(width, height) == [width |-> width, height |-> height]

NoGeom == Geom(RInt(0), RInt(0), RInt(0), RInt(0))
NoFont == Font("", RInt(0))

-----------------------------------------------------------------------------
(* The calendar module as used on lines 78-79 *)

isleap(year) == year % 4 = 0 /\ (year % 100 # 0 \/ year % 400 = 0)

mdays == <<31, 28, 31, 30, 31, 30, 31, 31, 30, 31, 30, 31>>

ndaysOf(year, month) ==
    mdays[month] + (IF month = 2 /\ isleap(year) THEN 1 ELSE 0)

\* days before January 1st of year (proleptic Gregorian ordinal)
days_before_year(year) ==
    LET y == year - 1
    IN  y * 365 + (y \div 4) - (y \div 100) + (y \div 400)

RECURSIVE days_before_month(_, _)
days_before_month(year, month) ==
    IF month = 1 THEN 0
    ELSE days_before_month(year, month - 1) + ndaysOf(year, month - 1)

\* calendar.weekday: 0 is Monday
weekday(year, month, day) ==
    (days_before_year(year) + days_before_month(year, month) + day + 6) % 7

\* calendar.monthrange: <<weekday of the 1st, number of days>>
monthrange(year, month) == <<weekday(year, month, 1), ndaysOf(year, month)>>

\* itermonthdays with range(1, ndays): the last day of the month is left out
itermonthdays_short(fwd, year, month) ==
    LET day1  == monthrange(year, month)[1]
        ndays == monthrange(year, month)[2]
        days_before == (day1 - fwd) % 7
        days_after  == (fwd - day1 - ndays) % 7
    IN  [i \in 1 .. days_before |-> 0]
        \o [i \in 1 .. (ndays - 1) |-> i]
        \o [i \in 1 .. days_after |-> 0]

\* Calendar.itermonthdays: zeros before, 1..ndays, zeros after
itermonthdays(fwd, year, month) ==
    LET day1  == monthrange(year, month)[1]
        ndays == monthrange(year, month)[2]
        days_before == (day1 - fwd) % 7
        days_after  == (fwd - day1 - ndays) % 7
    IN  [i \in 1 .. days_before |-> 0]
        \o [i \in 1 .. ndays |-> i]
        \o [i \in 1 .. days_after |-> 0]

\* calendar.monthcalendar under first weekday fwd: the days in weeks of 7
monthcalendar(fwd, year, month) ==
    LET days == itermonthdays(fwd, year, month)
    IN  [w \in 1 .. ((Len(days) + 6) \div 7) |->
            SubSeq(days, 7 * (w - 1) + 1,
                   IF 7 * w < Len(days) THEN 7 * w ELSE Len(days))]

-----------------------------------------------------------------------------
(* draw_cell (lines 116-158) *)

\* a text is a sequence of strings; a number's text has one per digit
digits == <<"0", "1", "2", "3", "4", "5", "6", "7", "8", "9">>

\* str(day): the decimal digits of a non-negative integer
RECURSIVE str(_)
str(n) ==
    IF n < 10 THEN <<digits[n + 1]>>
    ELSE str(n \div 10) \o <<digits[(n % 10) + 1]>>

\* int(s): the integer a digit string denotes
RECURSIVE int(_)
int(s) ==
    IF Len(s) = 0 THEN 0
    ELSE 10 * int(SubSeq(s, 1, Len(s) - 1))
         + (CHOOSE d \in 0 .. 9 : digits[d + 1] = s[Len(s)])

\* the ORDINALS table without its None entry
ORDINALS ==
    (1 :> "st") @@ (2 :> "nd") @@ (3 :> "rd") @@
    (21 :> "st") @@ (22 :> "nd") @@ (23 :> "rd") @@
    (31 :> "st")

\* ORDINALS[None]
ORDINALS_None == "th"

\* ORDINALS.get written as day % 10 lookup: 11, 12, 13 get "st", "nd", "rd"
ordinal_get_mod10(key) ==
    IF (key % 10) \in DOMAIN ORDINALS THEN ORDINALS[key % 10] ELSE ORDINALS_None

\* ORDINALS.get(key, ORDINALS[None]) (line 140)
ordinal_get(key) ==
    IF key \in DOMAIN ORDINALS THEN ORDINALS[key] ELSE ORDINALS_None

\* Canvas.stringWidth of a digit string: every Helvetica digit is 0.556 em
stringWidth(text, fontName, fontSize) ==
    RMul(RInt(Len(text)), RMul(fontSize, Rat(556, 1000)))

Op(name, args) == [op |-> name, args |-> args]

\* the font draw_cell switches to for the text below the date (line 153)
smallfont(sf) == Font("Helvetica", RMul(sf, Rat(18, 1000)))

\* the canvas calls draw_cell issues for a day, in order (lines 134-158)
draw_cell_body(day, r, f, sf) ==
    LET margin == Size(RMul(f.size, Rat(1, 2)), RMul(f.size, Rat(13, 10)))
        daystr == str(day)
        ordinal_str == ordinal_get(int(daystr))
        text_x == RAdd(r.x, margin.width)
        text_y == RSub(r.y, margin.height)
        number_width == stringWidth(daystr, f.name, f.size)
        small == smallfont(sf)
    IN  <<Op("rect", <<r.x, RSub(r.y, r.height), r.width, r.height>>),
          Op("drawString", <<text_x, text_y, daystr>>),
          Op("stringWidth", <<daystr, f.name, f.size>>),
          Op("drawString", <<RAdd(text_x, number_width),
                             RAdd(text_y, RMul(margin.height, Rat(1, 10))),
                             <<ordinal_str>> >>),
          Op("setFont", <<small.name, small.size>>)>>
        \o [rownum \in 1 .. 3 |->
              Op("drawString", <<text_x,
                                 RSub(text_y, RMul(small.size, RInt(rownum))),
                                 <<"DUMMY ">> \o str(rownum)>>)]

\* draw_cell without the early return of lines 131-132
draw_cell_calls_noskip(day, r, f, sf) == draw_cell_body(day, r, f, sf)

\* the canvas calls one complete draw_cell(canvas, day, r, f, sf) issues:
\* none for a cell that is no date of the month (lines 131-132)
draw_cell_calls(day, r, f, sf) ==
    IF day = 0 THEN <<>> ELSE draw_cell_body(day, r, f, sf)

\* the places of draw_cell where a canvas call is taken to raise: the border
\* (line 137, before any font change) and the first line of text drawn in
\* the small font (line 156, after setFont on line 154)
RaisePoints == {"rect", "text"}

\* how many canvas calls of draw_cell completed before the raising one
CallsBefore(point) == IF point = "rect" THEN 0 ELSE 5

\* the active font after the canvas calls in issued (setFont takes effect)
RECURSIVE FontAfter(_, _)
FontAfter(f, issued) ==
    IF Len(issued) = 0 THEN f
    ELSE LET o == issued[Len(issued)]
         IN  IF o.op = "setFont" THEN Font(o.args[1], o.args[2])
             ELSE FontAfter(f, SubSeq(issued, 1, Len(issued) - 1))

-----------------------------------------------------------------------------
(* The reportlab Canvas as the program uses it *)

\* the graphics state of a new Canvas (and of each new page)
InitFont == Font("Helvetica", RInt(12))
InitLineWidth == RInt(1)

-----------------------------------------------------------------------------
(* Init: the process before generate_pdf is called; the calendar module's   *)
(* first weekday is its default, MONDAY                                     *)

Init ==
    /\ pc = "start"
    /\ firstweekday = 0
    /\ datetime_obj = [year |-> 0, month |-> 0]
    /\ first_weekday = 0
    /\ page_rect = NoGeom
    /\ cal = <<>>
    /\ rect = NoGeom
    /\ scale_factor = RInt(0)
    /\ line_width = RInt(0)
    /\ font = NoFont
    /\ rows = 0
    /\ cellsize = Size(RInt(0), RInt(0))
    /\ row = 0
    /\ col = 0
    /\ canvas_font = InitFont
    /\ canvas_lineWidth = InitLineWidth
    /\ state_stack = <<>>
    /\ ops = <<>>
    /\ pages = 0
    /\ saved = FALSE
    /\ error = "none"
    /\ calls = <<>>

\* generate_pdf up to the call of add_calendar_page (lines 170-178)
GeneratePdf(dt, size, fwd) ==
    /\ pc = "start"
    /\ LET sz   == Size(RInt(size[1]), RInt(size[2]))
           wmar == RDivInt(sz.width, 50)
           hmar == RDivInt(sz.height, 50)
           in   == Size(RSub(sz.width, RMul(RInt(2), wmar)),
                        RSub(sz.height, RMul(RInt(2), hmar)))
       IN  page_rect' = Geom(wmar, hmar, in.width, in.height)
    /\ datetime_obj' = dt
    /\ first_weekday' = fwd
    /\ canvas_font' = InitFont
    /\ canvas_lineWidth' = InitLineWidth
    /\ state_stack' = <<>>
    /\ ops' = <<>>
    /\ pages' = 0
    /\ saved' = FALSE
    /\ pc' = "add_calendar_page"
    /\ UNCHANGED <<firstweekday, cal, rect, scale_factor, line_width, font,
                   rows, cellsize, row, col, error, calls>>

\* calendar.setfirstweekday(first_weekday): the new value of the global
setfirstweekday(old, fwd) == fwd

\* lines 89-92: leave room for the stroke width around the outermost cells
inset(r, lw) ==
    Geom(RAdd(r.x, lw), RAdd(r.y, lw),
         RSub(r.width, RMul(lw, RInt(2))),
         RSub(r.height, RMul(lw, RInt(2))))

\* add_calendar_page up to the loop (lines 78-93)
AddCalendarPage ==
    /\ pc = "add_calendar_page"
    /\ firstweekday' = setfirstweekday(firstweekday, first_weekday)
    /\ cal' = monthcalendar(firstweekday', datetime_obj.year, datetime_obj.month)
    /\ scale_factor' = RMin(page_rect.width, page_rect.height)
    /\ line_width' = RMul(scale_factor', Rat(25, 10000))
    /\ font' = Font("Helvetica", RMul(scale_factor', Rat(28, 1000)))
    /\ rows' = Len(cal')
    /\ rect' = inset(page_rect, line_width')
    /\ cellsize' = IF rows' = 0 THEN cellsize
                   ELSE Size(RDivInt(rect'.width, 7), RDivInt(rect'.height, rows'))
    /\ row' = 0
    /\ col' = 0
    /\ pc' = IF rows' = 0 THEN "raised" ELSE "with"
    /\ error' = IF rows' = 0 THEN "ZeroDivisionError" ELSE error
    /\ UNCHANGED <<datetime_obj, first_weekday, page_rect, canvas_font,
                   canvas_lineWidth, state_stack, ops, pages, saved, calls>>

\* entering the with block and setting the defaults (lines 99-103, 57)
SaveState ==
    /\ pc = "with"
    /\ state_stack' = Append(state_stack,
                             [font |-> canvas_font, lineWidth |-> canvas_lineWidth])
    /\ canvas_font' = font
    /\ canvas_lineWidth' = line_width
    /\ ops' = ops \o <<Op("saveState", <<>>),
                       Op("setFont", <<font.name, font.size>>),
                       Op("setLineWidth", <<line_width>>)>>
    /\ pc' = "cell_cb"
    /\ UNCHANGED <<firstweekday, datetime_obj, first_weekday, page_rect, cal,
                   rect, scale_factor, line_width, font, rows, cellsize, row,
                   col, pages, saved, error, calls>>

\* the cell's top edge with row in place of rows - row
cell_y_rowwise(r, cs, nrows, rw) == RAdd(r.y, RMul(RInt(rw), cs.height))

\* line 107: the cell's y, its top edge, counted from the bottom of the page
cell_y(r, cs, nrows, rw) == RAdd(r.y, RMul(RInt(nrows - rw), cs.height))

\* the Geom passed to cell_cb (lines 105-108)
cell_rect(r, cs, nrows, rw, cl) ==
    Geom(RAdd(r.x, RMul(cs.width, RInt(cl))),
         cell_y(r, cs, nrows, rw),
         cs.width, cs.height)

CurrentDay == cal[row + 1][col + 1]

CurrentCall ==
    [row |-> row, col |-> col, day |-> CurrentDay,
     rect |-> cell_rect(rect, cellsize, rows, row, col),
     font |-> canvas_font, lineWidth |-> canvas_lineWidth,
     depth |-> Len(state_stack), snapshot |-> state_stack[Len(state_stack)]]

\* cell_cb = draw_cell is called and returns (lines 105-109)
DrawCell ==
    /\ pc = "cell_cb"
    /\ LET issued == draw_cell_calls(CurrentDay, CurrentCall.rect, font, scale_factor)
       IN  /\ ops' = ops \o issued
           /\ canvas_font' = FontAfter(canvas_font, issued)
    /\ calls' = Append(calls, CurrentCall)
    /\ pc' = "exit_with"
    /\ UNCHANGED <<firstweekday, datetime_obj, first_weekday, page_rect, cal,
                   rect, scale_factor, line_width, font, rows, cellsize, row,
                   col, canvas_lineWidth, state_stack, pages, saved, error>>

\* save_state with the yield inside try/except: the error is swallowed and
\* the with block ends as if the body had returned
save_state_throw_swallow(stack) == [restored |-> FALSE, propagates |-> FALSE]

\* save_state when the body raises (lines 54-59): the exception is thrown
\* into the generator at the yield, nothing there catches it, so
\* restoreState on line 59 is not reached and the exception leaves the with
\* block
save_state_throw(stack) == [restored |-> FALSE, propagates |-> TRUE]

\* cell_cb = draw_cell is called and a canvas call in it raises: the calls
\* before it have been issued, and the error leaves the with block,
\* add_calendar_page and generate_pdf
DrawCellRaise(point) ==
    /\ pc = "cell_cb"
    /\ CurrentDay # 0
    /\ LET all    == draw_cell_calls(CurrentDay, CurrentCall.rect, font, scale_factor)
           issued == SubSeq(all, 1, CallsBefore(point))
           exit   == save_state_throw(state_stack)
       IN  /\ ops' = ops \o issued
           /\ canvas_font' = FontAfter(canvas_font, issued)
           /\ pc' = IF exit.propagates THEN "raised" ELSE "exit_with"
    /\ error' = "RenderFailure"
    /\ calls' = Append(calls, CurrentCall)
    /\ UNCHANGED <<firstweekday, datetime_obj, first_weekday, page_rect, cal,
                   rect, scale_factor, line_width, font, rows, cellsize, row,
                   col, canvas_lineWidth, state_stack, pages, saved>>

\* save_state after the yield with restoreState forgotten
save_state_exit_norestore(stack, f, lw) ==
    [stack |-> stack, font |-> f, lineWidth |-> lw, restored |-> FALSE]

\* save_state after the yield (line 59): canvas.restoreState()
save_state_exit(stack, f, lw) ==
    [stack |-> SubSeq(stack, 1, Len(stack) - 1),
     font |-> stack[Len(stack)].font,
     lineWidth |-> stack[Len(stack)].lineWidth,
     restored |-> TRUE]

\* the loops of lines 96-97 with the last column of each week left out
next_cell_short(grid, rw, cl) ==
    IF cl + 1 < Len(grid[rw + 1]) - 1
      THEN [row |-> rw, col |-> cl + 1, done |-> FALSE]
      ELSE [row |-> rw + 1, col |-> 0, done |-> ~(rw + 1 < Len(grid))]

\* the loops of lines 96-97: the cell after (rw, cl) in row-major order, or
\* done after the last cell of the last week
next_cell(grid, rw, cl) ==
    IF cl + 1 < Len(grid[rw + 1])
      THEN [row |-> rw, col |-> cl + 1, done |-> FALSE]
      ELSE [row |-> rw + 1, col |-> 0, done |-> ~(rw + 1 < Len(grid))]

\* leaving the with block normally, then the next iteration of lines 96-97
RestoreState ==
    /\ pc = "exit_with"
    /\ LET exit == save_state_exit(state_stack, canvas_font, canvas_lineWidth)
       IN  /\ state_stack' = exit.stack
           /\ canvas_font' = exit.font
           /\ canvas_lineWidth' = exit.lineWidth
           /\ ops' = IF exit.restored
                        THEN Append(ops, Op("restoreState", <<>>))
                        ELSE ops
    /\ LET n == next_cell(cal, row, col)
       IN  /\ row' = n.row
           /\ col' = n.col
           /\ pc' = IF n.done THEN "showPage" ELSE "with"
    /\ UNCHANGED <<firstweekday, datetime_obj, first_weekday, page_rect, cal,
                   rect, scale_factor, line_width, font, rows, cellsize,
                   pages, saved, error, calls>>

\* canvas.showPage() (line 112): the page is finished and the graphics state
\* starts afresh
ShowPage ==
    /\ pc = "showPage"
    /\ pages' = pages + 1
    /\ ops' = Append(ops, Op("showPage", <<>>))
    /\ canvas_font' = InitFont
    /\ canvas_lineWidth' = InitLineWidth
    /\ state_stack' = <<>>
    /\ pc' = "save"
    /\ UNCHANGED <<firstweekday, datetime_obj, first_weekday, page_rect, cal,
                   rect, scale_factor, line_width, font, rows, cellsize, row,
                   col, saved, error, calls>>

\* .save() on the canvas add_calendar_page returned (line 179)
Save ==
    /\ pc = "save"
    /\ saved' = TRUE
    /\ pc' = "done"
    /\ UNCHANGED <<firstweekday, datetime_obj, first_weekday, page_rect, cal,
                   rect, scale_factor, line_width, font, rows, cellsize, row,
                   col, canvas_font, canvas_lineWidth, state_stack, ops, pages,
                   error, calls>>

\* one call of generate_pdf, from its arguments to save or to the error
Next ==
    \/ \E y \in Years, m \in RenderMonths, size \in PageSizes, fwd \in Weekdays :
          GeneratePdf([year |-> y, month |-> m], size, fwd)
    \/ AddCalendarPage
    \/ SaveState
    \/ DrawCell
    \/ \E point \in RaisePoints : DrawCellRaise(point)
    \/ RestoreState
    \/ ShowPage
    \/ Save

Spec == Init /\ [][Next]_vars

\* the construction of the month grid alone (lines 78-93), for every month
\* of GridYears and every first weekday
NextGrid ==
    \/ \E y \in GridYears, m \in Months, fwd \in Weekdays :
          GeneratePdf([year |-> y, month |-> m], <<200, 100>>, fwd)
    \/ AddCalendarPage

SpecGrid == Init /\ [][NextGrid]_vars

-----------------------------------------------------------------------------
(* Properties *)

\* the loop of add_calendar_page has been entered
GridBuilt == pc \notin {"start", "add_calendar_page"}

\* the loop of add_calendar_page has ended normally
LoopDone == pc \in {"showPage", "save", "done"}

RECURSIVE Flatten(_)
Flatten(grid) ==
    IF Len(grid) = 0 THEN <<>> ELSE grid[1] \o Flatten(Tail(grid))

IsDay(d) == d # 0

\* the length of a month by the calendar rule, stated apart from mdays
DaysInMonth(year, month) ==
    IF month \in {4, 6, 9, 11} THEN 30
    ELSE IF month # 2 THEN 31
    ELSE IF year % 400 = 0 THEN 29
    ELSE IF year % 100 = 0 THEN 28
    ELSE IF year % 4 = 0 THEN 29
    ELSE 28

\* C1: for every (year, month, first_weekday) the grid add_calendar_page
\* builds has 7 columns in every row, and its non-zero cells read in
\* row-major order are exactly 1, 2, ..., N, N the number of days of the month
C1_MonthGridIsOneToN ==
    GridBuilt =>
        /\ \A w \in 1 .. Len(cal) : Len(cal[w]) = 7
        /\ SelectSeq(Flatten(cal), IsDay)
             = [i \in 1 .. DaysInMonth(datetime_obj.year, datetime_obj.month) |-> i]

\* a leap February laid out Sunday-first: five rows, the 29th in the last one
C1_Witness ==
    /\ GridBuilt
    /\ datetime_obj = [year |-> 2024, month |-> 2]
    /\ firstweekday = 6
    /\ Len(cal) = 5
    /\ cal[1] = <<0, 0, 0, 0, 1, 2, 3>>
    /\ cal[5] = <<25, 26, 27, 28, 29, 0, 0>>

\* C2: cell_cb is invoked in row-major order, each cell once with the day
\* of the grid; when the loop has ended every one of the rows x 7 cells has
\* been rendered, and showPage happens only then
C2_EveryCellOnceInOrder ==
    /\ \A k \in 1 .. Len(calls) :
          /\ calls[k].row = (k - 1) \div 7
          /\ calls[k].col = (k - 1) % 7
          /\ calls[k].row < Len(cal)
          /\ calls[k].day = cal[calls[k].row + 1][calls[k].col + 1]
    /\ LoopDone => Len(calls) = Len(cal) * 7
    /\ pages > 0 => /\ LoopDone
                    /\ pages = 1
                    /\ ops[Len(ops)].op = "showPage"

\* a six-row page has been finalized after its 42 cells
C2_Witness ==
    /\ pc = "save"
    /\ pages = 1
    /\ Len(cal) = 6
    /\ Len(calls) = 42

\* the extent of a cell: [x, x + width] across, [y - height, y] upwards
Left(g) == g.x
Right(g) == RAdd(g.x, g.width)
Bottom(g) == RSub(g.y, g.height)
Top(g) == g.y

Overlap(a, b) ==
    /\ RLt(Left(a), Right(b))
    /\ RLt(Left(b), Right(a))
    /\ RLt(Bottom(a), Top(b))
    /\ RLt(Bottom(b), Top(a))

Area(g) == RMul(g.width, g.height)

\* the sum of the areas of the rectangles passed to cell_cb from the i-th
\* call to the j-th
RECURSIVE AreaSum(_, _)
AreaSum(i, j) ==
    IF i > j THEN RInt(0)
    ELSE IF i = j THEN Area(calls[i].rect)
    ELSE LET mid   == (i + j) \div 2
             left  == AreaSum(i, mid)
             right == AreaSum(mid + 1, j)
         IN  RAdd(left, right)

PositiveExtent(g) == RLt(RInt(0), g.width) /\ RLt(RInt(0), g.height)

\* the page rectangle less 1/400 of its shorter side on every side
InsetLeft   == RAdd(page_rect.x, RDivInt(RMin(page_rect.width, page_rect.height), 400))
InsetBottom == RAdd(page_rect.y, RDivInt(RMin(page_rect.width, page_rect.height), 400))
InsetWidth  == RSub(page_rect.width, RDivInt(RMin(page_rect.width, page_rect.height), 200))
InsetHeight == RSub(page_rect.height, RDivInt(RMin(page_rect.width, page_rect.height), 200))

\* C3: for a page rectangle of positive extent, the rectangles passed to
\* cell_cb partition the inset rectangle: no two overlap, each lies inside
\* it, 7 widths make its width and rows heights its height, their areas add
\* up to its area, and row 0 is the row at its top edge
C3_CellsPartitionInset ==
    (LoopDone /\ PositiveExtent(page_rect)) =>
        /\ \A i, j \in 1 .. Len(calls) :
              i # j => ~Overlap(calls[i].rect, calls[j].rect)
        /\ \A i \in 1 .. Len(calls) :
              /\ PositiveExtent(calls[i].rect)
              /\ RLe(InsetLeft, Left(calls[i].rect))
              /\ RLe(Right(calls[i].rect), RAdd(InsetLeft, InsetWidth))
              /\ RLe(InsetBottom, Bottom(calls[i].rect))
              /\ RLe(Top(calls[i].rect), RAdd(InsetBottom, InsetHeight))
              /\ RMul(RInt(7), calls[i].rect.width) = InsetWidth
              /\ RMul(RInt(Len(cal)), calls[i].rect.height) = InsetHeight
              /\ (calls[i].row = 0) = (Top(calls[i].rect) = RAdd(InsetBottom, InsetHeight))
              /\ \A j \in 1 .. Len(calls) :
                    calls[i].row < calls[j].row
                        => RLt(Top(calls[j].rect), Top(calls[i].rect))
        /\ AreaSum(1, Len(calls)) = RMul(InsetWidth, InsetHeight)

\* a portrait page of five rows has been laid out to its last cell
C3_Witness ==
    /\ LoopDone
    /\ PositiveExtent(page_rect)
    /\ RLt(page_rect.width, page_rect.height)
    /\ Len(cal) = 5
    /\ Len(calls) = 35

\* the call of cell_cb that raised, when one did
FailedCall == calls[Len(calls)]

\* C4: when draw_cell has set a font and then failed, the canvas font is
\* the one saveState captured before the cell, and that saveState has been
\* matched by a restoreState
C4_GuardRestoresOnError ==
    (error = "RenderFailure" /\ ops[Len(ops)].op = "setFont") =>
        /\ canvas_font = FailedCall.snapshot.font
        /\ Len(state_stack) = FailedCall.depth - 1

IsDrawOp(o) == o.op \in {"rect", "drawString"}

\* C5: a page rectangle of non-positive width or height is rejected before
\* anything is rendered: cell_cb is never invoked, nothing is drawn and no
\* page is finalized
C5_InvalidLayoutRejected ==
    (pc # "start" /\ ~PositiveExtent(page_rect)) =>
        /\ calls = <<>>
        /\ SelectSeq(ops, IsDrawOp) = <<>>
        /\ pages = 0

\* C6: add_calendar_page leaves the calendar module's first weekday as it
\* was before the call
C6_FirstWeekdayNotPersisted ==
    [][pc = "add_calendar_page" => firstweekday' = firstweekday]_vars

\* C7: draw_cell on a padding cell (day 0) issues no canvas call and
\* changes no canvas state
C7_PaddingCellDrawsNothing ==
    [][(pc = "cell_cb" /\ CurrentDay = 0 /\ error' = "none") =>
          /\ ops' = ops
          /\ canvas_font' = canvas_font
          /\ canvas_lineWidth' = canvas_lineWidth
          /\ state_stack' = state_stack
          /\ pages' = pages]_vars

\* draw_cell has returned from a padding cell
C7_Witness ==
    /\ pc = "exit_with"
    /\ CurrentDay = 0
    /\ Len(calls) > 0
    /\ calls[Len(calls)].day = 0
    /\ calls[Len(calls)].row = row
    /\ calls[Len(calls)].col = col

\* the English ordinal suffix of a day of the month
EnglishSuffix(d) ==
    IF d \in {1, 21, 31} THEN "st"
    ELSE IF d \in {2, 22} THEN "nd"
    ELSE IF d \in {3, 23} THEN "rd"
    ELSE "th"

\* the canvas calls of the draw_cell that has just returned (8 for a day)
LastCellOps == SubSeq(ops, Len(ops) - 7, Len(ops))

\* C8: for every day 1..31 draw_cell draws the day's digits and then the
\* English ordinal suffix: st for 1, 21, 31; nd for 2, 22; rd for 3, 23;
\* th otherwise
C8_OrdinalSuffixEnglish ==
    (pc = "exit_with" /\ error = "none" /\ CurrentDay # 0) =>
        /\ CurrentDay \in 1 .. 31
        /\ LastCellOps[2].op = "drawString"
        /\ LastCellOps[2].args[3]
              = (IF CurrentDay < 10 THEN <<digits[CurrentDay + 1]>>
                 ELSE <<digits[(CurrentDay \div 10) + 1],
                        digits[(CurrentDay % 10) + 1]>>)
        /\ LastCellOps[4].op = "drawString"
        /\ LastCellOps[4].args[3] = <<EnglishSuffix(CurrentDay)>>

\* the 11th, 12th and 13th have been drawn with "th", the 31st being drawn
C8_Witness ==
    /\ pc = "exit_with"
    /\ error = "none"
    /\ CurrentDay = 31
    /\ LastCellOps[4].args[3] = <<"st">>
    /\ \E k \in 1 .. Len(ops) - 2 :
          /\ ops[k].op = "drawString"
          /\ ops[k].args[3] = <<"1", "1">>
          /\ ops[k + 2].op = "drawString"
          /\ ops[k + 2].args[3] = <<"th">>

\* C9: once the cell renderer has failed, the error has left
\* add_calendar_page and generate_pdf: the failing cell is the last one
\* rendered, no page is finalized and the document is not saved
C9_RenderFailureAborts ==
    (error = "RenderFailure") =>
        /\ pc = "raised"
        /\ FailedCall.row = row
        /\ FailedCall.col = col
        /\ Len(calls) = row * 7 + col + 1
        /\ pages = 0
        /\ ~saved
        /\ \A k \in 1 .. Len(ops) : ops[k].op # "showPage"

\* the renderer failed on a cell that is not the last of its page
C9_Witness ==
    /\ error = "RenderFailure"
    /\ pc = "raised"
    /\ Len(calls) > 7
    /\ Len(calls) < Len(cal) * 7 - 7

\* C10: whenever cell_cb is invoked the canvas font is Helvetica at 0.028 of
\* the scale factor and the line width 0.0025 of it, whatever earlier cells
\* did; and after the loop the state stack, the font and the line width are
\* those of the canvas at entry to add_calendar_page
C10_NoStyleLeak ==
    /\ \A k \in 1 .. Len(calls) :
          /\ calls[k].font
               = Font("Helvetica",
                      RMul(RMin(page_rect.width, page_rect.height), Rat(28, 1000)))
          /\ calls[k].lineWidth
               = RMul(RMin(page_rect.width, page_rect.height), Rat(25, 10000))
          /\ calls[k].depth = 1
          /\ calls[k].snapshot = [font |-> InitFont, lineWidth |-> InitLineWidth]
    /\ pc = "showPage" =>
          /\ state_stack = <<>>
          /\ canvas_font = InitFont
          /\ canvas_lineWidth = InitLineWidth

\* the loop has ended after cells that switched to the small font
C10_Witness ==
    /\ pc = "showPage"
    /\ error = "none"
    /\ \E k \in 1 .. Len(calls) : calls[k].day # 0
    /\ \E k \in 1 .. Len(ops) :
          ops[k].op = "setFont" /\ ops[k].args[2] = smallfont(scale_factor).size

====
